---- MODULE Spec2Model ----
(***************************************************************************)
(* The issue-creation engine of release-process-o-tron                     *)
(* (src/relprocotron/__main__.py): _create_github_issues walks a Task      *)
(* Document and creates parent and child issues on the tracker through     *)
(* GitHubClient, one tracker call at a time.                               *)
(***************************************************************************)
EXTENDS Integers, Sequences, FiniteSets, TLC

(***************************************************************************)
(* Bounds of the model.                                                    *)
(***************************************************************************)
\* Largest number of tasks (top-level tasks plus children) in a document.
MaxNodes == 3

\* The priorities a task of the document may carry; NoPriority stands for a
\* task without a "priority" key.
NoPriority == -1
PriorityChoices == {1, 2, NoPriority}

\* The tag lists a task may carry (<<>>: no "tags" key or an empty list).
TagChoices == {<<"bug">>, <<"missing-tag">>}

\* The label names of the tracker during a run of _create_github_issues.
LabelChoices == {{"bug", "feature"}}

\* Every tag and label name of the model, in sorted order.
TagNames == <<"bug", "feature", "missing-tag">>

\* The target repositories (owner/repo).
RepoChoices == {"test/repo", "octo/app"}

\* The states of the input file.
FileChoices == {"missing", "malformed", "no-release", "no-tasks", "ok"}

(***************************************************************************)
(* Program constants.                                                      *)
(***************************************************************************)
\* x.get("priority", 999)
DefaultPriority == 999

(***************************************************************************)
(* Task Documents.  A title is the pair <<i, j>>: the j-th child of the    *)
(* i-th top-level task in document order (j = 0 for the top-level task     *)
(* itself), so titles are unique and carry the document order.             *)
(***************************************************************************)
NodeAttrs == [priority : PriorityChoices, tags : TagChoices]

Child(i, j, a) ==
    [title |-> <<i, j>>, category |-> "Testing",
     description |-> << <<"Subdescription">> >>,
     priority |-> a.priority, tags |-> a.tags, children |-> <<>>]

Task(i, a, kids) ==
    [title |-> <<i, 0>>, category |-> "Testing",
     description |-> << <<"Description">> >>,
     priority |-> a.priority, tags |-> a.tags,
     children |-> [j \in 1..Len(kids) |-> Child(i, j, kids[j])]]

\* The lists of at most n children's attributes, drawn from attrs.
RECURSIVE ChildLists(_, _)
ChildLists(attrs, n) ==
    IF n = 0 THEN {<<>>}
    ELSE LET shorter == ChildLists(attrs, n - 1)
         IN  shorter \cup {Append(k, a) : k \in {s \in shorter : Len(s) = n - 1},
                                          a \in attrs}

\* The task lists that start at document position i and hold at most n tasks
\* (children included), their attributes drawn from attrs.
RECURSIVE TaskLists(_, _, _)
TaskLists(attrs, i, n) ==
    IF n = 0 THEN {<<>>}
    ELSE {<<>>} \cup
         UNION {UNION {{<<Task(i, a, kids)>> \o rest :
                           rest \in TaskLists(attrs, i + 1, n - 1 - Len(kids))} :
                       kids \in ChildLists(attrs, n - 1)} :
                a \in attrs}

DocumentsOf(attrs) ==
    {[release |-> [name |-> "Test Release"], tasks |-> ts] :
        ts \in TaskLists(attrs, 1, MaxNodes)}

Documents == DocumentsOf(NodeAttrs)

\* The tag lists of a task in the documents of label collection: none, one
\* tag, a tag twice, two tags.  (A task without 'tags' reads as the empty
\* list: task.get("tags", []).)
TagListChoices == {<<>>, <<"bug">>, <<"bug", "bug">>, <<"feature", "bug">>}

TagDocuments == DocumentsOf([priority : {1}, tags : TagListChoices])

\* The documents of every shape and every priority, all tasks with one tag.
PriorityDocuments == DocumentsOf([priority : PriorityChoices, tags : {<<"bug">>}])

\* A task nested under child j of task i.
Grandchild(i, j) ==
    [title |-> <<i, j, 1>>, category |-> "Testing",
     description |-> << <<"Nested">> >>,
     priority |-> 1, tags |-> <<"bug">>, children |-> <<>>]

\* The document with a task nested under every child.
Nested(doc) ==
    [doc EXCEPT !.tasks =
        [i \in DOMAIN doc.tasks |->
            [doc.tasks[i] EXCEPT !.children =
                [j \in DOMAIN doc.tasks[i].children |->
                    [doc.tasks[i].children[j] EXCEPT
                        !.children = <<Grandchild(i, j)>>]]]]]

\* The documents whose tasks have no priority or one around the default key.
DefaultKeyDocuments ==
    DocumentsOf([priority : {1, 999, 1000, NoPriority}, tags : {<<"bug">>}])

\* The documents of every shape, all tasks with the same priority and tag.
ShapeDocuments == DocumentsOf({[priority |-> 1, tags |-> <<"bug">>]})

\* The documents of every shape, without and with a third level.
NestedDocuments == ShapeDocuments \cup {Nested(d) : d \in ShapeDocuments}

NoDocument == [release |-> [name |-> ""], tasks |-> <<>>]

\* Every task of a document, top-level tasks and children alike.
AllTasks(doc) ==
    {doc.tasks[i] : i \in 1..Len(doc.tasks)} \cup
    UNION {{doc.tasks[i].children[j] : j \in 1..Len(doc.tasks[i].children)} :
              i \in 1..Len(doc.tasks)}

(***************************************************************************)
(* Text.  A body is the sequence of its lines ("\n".join); a line is the   *)
(* tuple of the literal parts and values of the f-string that builds it.   *)
(***************************************************************************)
CategoryLine(category) == <<"**Category:** ", category>>
BlankLine == <<"">>
PriorityLine(priority) == <<"**Priority:** ", priority>>
ParentLine(number) == <<"**Parent Issue:** #", number>>
SubTasksLine == <<"**Sub-tasks:**">>
ChecklistLine(number, title) == <<"- [ ] #", number, " ", title>>

IsChecklistLine(line) == line[1] = "- [ ] #"
IsParentLine(line) == line[1] = "**Parent Issue:** #"
IsPriorityLine(line) == line[1] = "**Priority:** "

(***************************************************************************)
(* State.                                                                  *)
(***************************************************************************)
VARIABLES
    input_file,       \* the state of the file at the input path
    github_repo,      \* the target repository, owner/repo
    github_token,     \* the access token
    document,         \* the Task Document the file holds
    dry_run,          \* the --dry-run flag
    trackerLabels,    \* tracker: the names of the labels of the repository
    trackerIssues,    \* tracker: the issues, issue number n at index n
    calls,            \* every tracker call made so far, in order
    pc,               \* where _create_github_issues stands
    data,             \* the loaded document
    github_client,    \* TRUE when a GitHubClient was constructed
    tasks,            \* the top-level tasks sorted by priority
    ti,               \* index into tasks of the for loop
    parent_issue,     \* the issue of the current top-level task, or None
    child_tasks,      \* the children of the current task sorted by priority
    ci,               \* index into child_tasks of the inner for loop
    child_task_list,  \* checklist lines of the created children
    created_issues,   \* title -> created issue
    total_created,    \* the count reported at the end
    output,           \* what the run reports: the final message or the error
    validation,       \* the outcome of the label validation
    request,          \* client: the operation _make_request is carrying out
    attempt,          \* client: the loop variable of _make_request
    client_pc,        \* client: where _make_request stands
    responses,        \* client: what each network attempt of the request got
    sleeps,           \* client: the time.sleep calls of the request, each with
                      \* the attempt that made it and its argument
    error,            \* client: the exception _make_request raised
    started           \* the number of requests handed to _make_request

vars == <<input_file, github_repo, github_token, document, dry_run, trackerLabels,
          trackerIssues, calls,
          pc, data, github_client, tasks, ti, parent_issue, child_tasks, ci,
          child_task_list, created_issues, total_created, output, validation,
          request, attempt, client_pc, responses, sleeps, error, started>>

\* What _create_github_issues reads and writes.
runVars == <<pc, data, github_client, tasks, ti, parent_issue, child_tasks, ci,
             child_task_list, created_issues, total_created, output, calls,
             trackerIssues, validation>>

\* Python's None for an issue.
None == [number |-> 0, title |-> <<0, 0>>, body |-> <<>>, labels |-> <<>>]

NoOutput == [kind |-> "none", count |-> 0]

NotValidated == [status |-> "none", missing |-> <<>>, action |-> "", link |-> <<>>]

NoRequest == [method |-> "", op |-> ""]

\* The client carries out no request.
ClientIdle ==
    /\ request = NoRequest
    /\ attempt = 0
    /\ client_pc = "idle"
    /\ responses = <<>>
    /\ sleeps = <<>>
    /\ error = "none"

\* The caller has taken the result of the request: the client is idle again.
ClientReset ==
    /\ request' = NoRequest
    /\ attempt' = 0
    /\ client_pc' = "idle"
    /\ responses' = <<>>
    /\ sleeps' = <<>>
    /\ error' = "none"
    /\ UNCHANGED started

(***************************************************************************)
(* sorted(xs, key=lambda x: x.get("priority", 999)): a stable sort.        *)
(***************************************************************************)
\* A task without priority gets the smallest key.
PriorityKey_NoneFirst(x) == IF x.priority = NoPriority THEN 0 ELSE x.priority

\* Lines 371 and 386: x.get("priority", 999).
PriorityKey(x) == IF x.priority = NoPriority THEN DefaultPriority ELSE x.priority

\* The sort puts x before the elements of equal key.
RECURSIVE InsertByPriority_Unstable(_, _)
InsertByPriority_Unstable(sorted, x) ==
    IF sorted = <<>> THEN <<x>>
    ELSE IF PriorityKey(sorted[Len(sorted)]) < PriorityKey(x)
         THEN Append(sorted, x)
         ELSE Append(InsertByPriority_Unstable(SubSeq(sorted, 1, Len(sorted) - 1), x),
                     sorted[Len(sorted)])

\* x is put behind every element whose key is not larger: equal keys keep
\* their order.
RECURSIVE InsertByPriority(_, _)
InsertByPriority(sorted, x) ==
    IF sorted = <<>> THEN <<x>>
    ELSE IF PriorityKey(sorted[Len(sorted)]) <= PriorityKey(x)
         THEN Append(sorted, x)
         ELSE Append(InsertByPriority(SubSeq(sorted, 1, Len(sorted) - 1), x),
                     sorted[Len(sorted)])

RECURSIVE SortedByPriority(_)
SortedByPriority(xs) ==
    IF xs = <<>> THEN <<>>
    ELSE InsertByPriority(SortedByPriority(SubSeq(xs, 1, Len(xs) - 1)),
                          xs[Len(xs)])

(***************************************************************************)
(* _create_issue_from_task: the body of the issue of a task.               *)
(***************************************************************************)
\* The back-reference names the issue created last.
IssueBody_LastIssue(task, parent) ==
    <<CategoryLine(task.category), BlankLine>>
    \o task.description
    \o (IF task.priority # NoPriority
        THEN <<BlankLine, PriorityLine(task.priority)>> ELSE <<>>)
    \o (IF parent # None
        THEN <<BlankLine, ParentLine(Len(trackerIssues))>> ELSE <<>>)

\* The blank line before the priority line is missing.
IssueBody_NoBlankLine(task, parent) ==
    <<CategoryLine(task.category), BlankLine>>
    \o task.description
    \o (IF task.priority # NoPriority
        THEN <<PriorityLine(task.priority)>> ELSE <<>>)
    \o (IF parent # None
        THEN <<BlankLine, ParentLine(parent.number)>> ELSE <<>>)

\* Every child gets a back-reference, whether its parent was created or not.
IssueBody_ParentLineForChildren(task, parent) ==
    <<CategoryLine(task.category), BlankLine>>
    \o task.description
    \o (IF task.priority # NoPriority
        THEN <<BlankLine, PriorityLine(task.priority)>> ELSE <<>>)
    \o (IF task.title[2] > 0
        THEN <<BlankLine, ParentLine(parent.number)>> ELSE <<>>)

\* Lines 416-431: category, blank line, description; then the priority when
\* the task has one; then the back-reference when a parent issue is given.
IssueBody(task, parent) ==
    <<CategoryLine(task.category), BlankLine>>
    \o task.description
    \o (IF task.priority # NoPriority
        THEN <<BlankLine, PriorityLine(task.priority)>> ELSE <<>>)
    \o (IF parent # None
        THEN <<BlankLine, ParentLine(parent.number)>> ELSE <<>>)

(***************************************************************************)
(* The tracker calls.  A call that succeeds changes the tracker and        *)
(* returns the issue; a call that fails (after the client's retries)       *)
(* raises and leaves the tracker alone.                                    *)
(***************************************************************************)
CreateCall(title, body, labels, ok, number) ==
    [op |-> "create_issue", title |-> title, body |-> body, labels |-> labels,
     ok |-> ok, number |-> number]

UpdateCall(number, body, ok) ==
    [op |-> "update_issue", title |-> <<0, 0>>, body |-> body, labels |-> <<>>,
     ok |-> ok, number |-> number]

NextNumber == Len(trackerIssues) + 1

\* POST /repos/{repo}/issues answers with the issue it created.
NewIssue(title, body, labels) ==
    [number |-> NextNumber, title |-> title, body |-> body, labels |-> labels]

\* The dry-run return of lines 437-442 is missing.
CreateIssueFromTask_NoDryRun(task, parent, ok, issue) ==
    LET body == IssueBody(task, parent)
    IN  /\ issue = NewIssue(task.title, body, task.tags)
        /\ trackerIssues' = Append(trackerIssues, issue)
        /\ calls' = Append(calls, CreateCall(task.title, body, task.tags,
                                             TRUE, issue.number))

\* A failed create_issue is attempted once more.
CreateIssueFromTask_Retry(task, parent, ok, issue) ==
    LET body == IssueBody(task, parent)
        labels == task.tags
    IN  IF dry_run
        THEN /\ issue = None
             /\ UNCHANGED <<trackerIssues, calls>>
        ELSE IF ok
        THEN /\ issue = NewIssue(task.title, body, labels)
             /\ trackerIssues' = Append(trackerIssues, issue)
             /\ calls' = Append(calls, CreateCall(task.title, body, labels,
                                                  TRUE, issue.number))
        ELSE /\ issue = None
             /\ UNCHANGED trackerIssues
             /\ calls' = calls \o <<CreateCall(task.title, body, labels, FALSE, 0),
                                    CreateCall(task.title, body, labels, FALSE, 0)>>

\* A failed create_issue is compensated: the issues created so far are removed.
CreateIssueFromTask_Rollback(task, parent, ok, issue) ==
    LET body == IssueBody(task, parent)
        labels == task.tags
    IN  IF dry_run
        THEN /\ issue = None
             /\ UNCHANGED <<trackerIssues, calls>>
        ELSE IF ok
        THEN /\ issue = NewIssue(task.title, body, labels)
             /\ trackerIssues' = Append(trackerIssues, issue)
             /\ calls' = Append(calls, CreateCall(task.title, body, labels,
                                                  TRUE, issue.number))
        ELSE /\ issue = None
             /\ trackerIssues' = <<>>
             /\ calls' = Append(calls, CreateCall(task.title, body, labels,
                                                  FALSE, 0))

\* _create_issue_from_task(github_client, task, parent, dry_run) with the
\* outcome ok of the create_issue call; issue is what it returns.
CreateIssueFromTask(task, parent, ok, issue) ==
    LET body == IssueBody(task, parent)
        labels == task.tags
    IN  IF dry_run
        THEN /\ issue = None
             /\ UNCHANGED <<trackerIssues, calls>>
        ELSE IF ~github_client
        THEN /\ issue = None
             /\ UNCHANGED <<trackerIssues, calls>>
        ELSE IF ok
        THEN /\ issue = NewIssue(task.title, body, labels)
             /\ trackerIssues' = Append(trackerIssues, issue)
             /\ calls' = Append(calls, CreateCall(task.title, body, labels,
                                                  TRUE, issue.number))
        ELSE /\ issue = None
             /\ UNCHANGED trackerIssues
             /\ calls' = Append(calls, CreateCall(task.title, body, labels,
                                                  FALSE, 0))

\* The issues a call of _create_issue_from_task may return.
IssueResults == {None} \cup
    {NewIssue(t.title, IssueBody(t, p), t.tags) :
        t \in AllTasks(data), p \in {None, parent_issue}}

\* The outcomes of a tracker call the run has to distinguish: in a dry run
\* there is no call and so no outcome to choose.
\* When the request was carried out by _make_request, the outcome is whether
\* it returned.
Outcomes ==
    IF dry_run THEN {TRUE}
    ELSE IF client_pc = "idle" THEN BOOLEAN
    ELSE {client_pc = "returned"}

(***************************************************************************)
(* GitHubClient._make_request: one request with its retries.               *)
(***************************************************************************)
\* max_retries: int = 3
max_retries == 3

\* base_delay: float = 1.0
base_delay == 1

\* The operations of the client and the HTTP method each one sends.
Requests == {[method |-> "POST", op |-> "create_issue"],
             [method |-> "GET", op |-> "get_issue"],
             [method |-> "PATCH", op |-> "update_issue"]}

\* What one network attempt may get: a response with a status and maybe a
\* Retry-After header, or an exception of requests.
NoHeader == [present |-> FALSE, integer |-> FALSE, seconds |-> 0]
RetryAfterChoices ==
    {NoHeader,
     [present |-> TRUE, integer |-> TRUE, seconds |-> 7],
     [present |-> TRUE, integer |-> FALSE, seconds |-> 0]}

Response(status, retry_after) ==
    [kind |-> "response", status |-> status, retry_after |-> retry_after]
Exception(kind) == [kind |-> kind, status |-> 0, retry_after |-> NoHeader]

AllResponses ==
    {Response(st, NoHeader) : st \in {200, 201, 204, 304, 401, 404, 500}}
    \cup {Response(429, h) : h \in RetryAfterChoices}
    \cup {Exception(k) : k \in {"Timeout", "ConnectionError", "TooManyRedirects"}}

\* The responses the tracker gives during a whole run of the orchestrator.
RunResponses ==
    {Response(201, NoHeader), Response(429, NoHeader), Response(404, NoHeader),
     Response(429, [present |-> TRUE, integer |-> FALSE, seconds |-> 0]),
     Exception("Timeout")}

ResponseChoices == IF pc = "client" THEN AllResponses ELSE RunResponses

\* Line 269: int(response.headers.get("Retry-After", base_delay * (2 ** attempt)))
\* of a header that holds an integer, or of no header.
RetryAfter(header, n) ==
    IF header.present THEN header.seconds ELSE base_delay * (2 ^ n)

\* The backoff grows linearly.
Delay_Linear(n) == base_delay * (n + 1)

\* Lines 286 and 294: delay = base_delay * (2 ** attempt).
Delay(n) == base_delay * (2 ^ n)

\* response.raise_for_status() raises HTTPError for a 4xx or 5xx status.
IsHttpError(status) == status >= 400 /\ status < 600

\* time.sleep(seconds); continue.
SleepAndContinue(seconds) ==
    /\ sleeps' = Append(sleeps, [attempt |-> attempt, seconds |-> seconds])
    /\ client_pc' = "sleeping"
    /\ UNCHANGED <<attempt, error>>

\* The exception leaves _make_request.
Raise(exception) ==
    /\ client_pc' = "raised"
    /\ error' = exception
    /\ UNCHANGED <<attempt, sleeps>>

\* The last attempt backs off and goes on as well.
RetryOrRaise_OneMore(exception) ==
    IF attempt <= max_retries THEN SleepAndContinue(Delay(attempt))
    ELSE Raise(exception)

\* Lines 284-298: the two except clauses do the same: back off and go on
\* while attempts are left, re-raise on the last attempt.
RetryOrRaise(exception) ==
    IF attempt < max_retries THEN SleepAndContinue(Delay(attempt))
    ELSE Raise(exception)

\* The end of an iteration that neither returned, raised nor continued:
\* the for loop takes the next attempt, and after the last one line 301
\* raises.
\* Line 301: the exception raised when the loop ends.
GenericError == "RequestException: failed after retries"

\* A response that is no error is taken for a success.
NextIteration_Returns ==
    /\ client_pc' = "returned"
    /\ UNCHANGED <<attempt, sleeps, error>>

\* Lines 256 and 301: the loop goes on with the next attempt, and ends with
\* the generic exception when there is none.
NextIteration ==
    IF attempt < max_retries
    THEN /\ attempt' = attempt + 1
         /\ UNCHANGED <<client_pc, sleeps, error>>
    ELSE Raise(GenericError)

\* The rate-limit branch of lines 267-274 is missing.
HandleResponse_NoRateLimit(r) ==
    IF r.status \in {200, 201}
    THEN /\ client_pc' = "returned"
         /\ UNCHANGED <<attempt, sleeps, error>>
    ELSE IF IsHttpError(r.status)
    THEN Raise("HTTPError")
    ELSE NextIteration

\* The rate-limit branch sleeps on the last attempt too.
HandleResponse_SleepOnLast(r) ==
    IF r.status = 429 /\ r.retry_after.present /\ ~r.retry_after.integer
    THEN Raise("ValueError")
    ELSE IF r.status = 429
    THEN SleepAndContinue(RetryAfter(r.retry_after, attempt))
    ELSE IF r.status \in {200, 201}
    THEN /\ client_pc' = "returned"
         /\ UNCHANGED <<attempt, sleeps, error>>
    ELSE IF IsHttpError(r.status)
    THEN RetryOrRaise("HTTPError")
    ELSE NextIteration

\* A Retry-After that is no integer is ignored in favour of the default delay.
HandleResponse_DefaultOnBadHeader(r) ==
    IF r.status = 429 /\ attempt < max_retries
    THEN SleepAndContinue(IF r.retry_after.integer
                          THEN RetryAfter(r.retry_after, attempt)
                          ELSE Delay(attempt))
    ELSE IF r.status \in {200, 201}
    THEN /\ client_pc' = "returned"
         /\ UNCHANGED <<attempt, sleeps, error>>
    ELSE IF IsHttpError(r.status)
    THEN RetryOrRaise("HTTPError")
    ELSE NextIteration

\* Lines 267-282: what _make_request does with the response r.
HandleResponse(r) ==
    IF r.status = 429 /\ r.retry_after.present /\ ~r.retry_after.integer
    THEN Raise("ValueError")
    ELSE IF r.status = 429 /\ attempt < max_retries
    THEN SleepAndContinue(RetryAfter(r.retry_after, attempt))
    ELSE IF r.status \in {200, 201}
    THEN /\ client_pc' = "returned"
         /\ UNCHANGED <<attempt, sleeps, error>>
    ELSE IF IsHttpError(r.status)
    THEN RetryOrRaise("HTTPError")
    ELSE NextIteration

\* Lines 256-298: one iteration of the for loop, one network attempt.
SendRequest ==
    /\ client_pc = "sending"
    /\ \E r \in ResponseChoices :
         /\ responses' = Append(responses, r)
         /\ IF r.kind = "response" THEN HandleResponse(r)
            ELSE RetryOrRaise(r.kind)
    /\ UNCHANGED <<input_file, github_repo, github_token, document, dry_run, trackerLabels,
                   runVars, request, started>>

\* time.sleep returns and continue starts the next iteration.
Wake ==
    /\ client_pc = "sleeping"
    /\ attempt' = attempt + 1
    /\ client_pc' = "sending"
    /\ UNCHANGED <<input_file, github_repo, github_token, document, dry_run, trackerLabels,
                   runVars, request, responses, sleeps, error, started>>

(***************************************************************************)
(* _create_github_issues.                                                  *)
(***************************************************************************)
\* What holds before the first step of every run.
InitRun ==
    /\ trackerIssues = <<>>
    /\ calls = <<>>
    /\ data = NoDocument
    /\ github_client = FALSE
    /\ tasks = <<>>
    /\ ti = 1
    /\ parent_issue = None
    /\ child_tasks = <<>>
    /\ ci = 1
    /\ child_task_list = <<>>
    /\ created_issues = <<>>
    /\ total_created = 0
    /\ output = NoOutput
    /\ validation = NotValidated
    /\ ClientIdle
    /\ started = 0

Init ==
    /\ input_file \in FileChoices
    /\ github_repo = "test/repo"
    /\ github_token = "token"
    /\ document \in (IF input_file = "ok" THEN Documents ELSE {NoDocument})
    /\ dry_run \in BOOLEAN
    /\ trackerLabels \in LabelChoices
    /\ pc = "load"
    /\ InitRun

\* The messages a run ends with when the document cannot be loaded.
DocumentErrors == {"Input file not found", "JSONDecodeError", "KeyError"}

\* A file that cannot be read as a document is taken for an empty document.
LoadDocument_Lenient ==
    /\ pc = "load"
    /\ data' = document
    /\ github_client' = ~dry_run
    /\ tasks' = SortedByPriority(document.tasks)
    /\ pc' = "task"
    /\ UNCHANGED <<input_file, github_repo, github_token, document, dry_run, trackerLabels,
                   validation, trackerIssues, output,
                   calls, ti, parent_issue, child_tasks, ci, child_task_list,
                   created_issues, total_created>>
    /\ ClientReset

\* Lines 349-375: read the file, construct the client, sort the tasks.  A
\* file that does not exist ends the run at line 351, one that is not JSON at
\* line 355, a JSON object without 'release' at line 358 and one without
\* 'tasks' at line 370, after the client was constructed.
LoadDocument ==
    /\ pc = "load"
    /\ \/ /\ input_file = "missing"
          /\ pc' = "failed"
          /\ output' = [kind |-> "Input file not found", count |-> 0]
          /\ UNCHANGED <<data, github_client, tasks>>
       \/ /\ input_file = "malformed"
          /\ pc' = "failed"
          /\ output' = [kind |-> "JSONDecodeError", count |-> 0]
          /\ UNCHANGED <<data, github_client, tasks>>
       \/ /\ input_file = "no-release"
          /\ pc' = "failed"
          /\ output' = [kind |-> "KeyError", count |-> 0]
          /\ UNCHANGED <<data, github_client, tasks>>
       \/ /\ input_file = "no-tasks"
          /\ github_client' = ~dry_run
          /\ pc' = "failed"
          /\ output' = [kind |-> "KeyError", count |-> 0]
          /\ UNCHANGED <<data, tasks>>
       \/ /\ input_file = "ok"
          /\ data' = document
          /\ github_client' = ~dry_run
          /\ tasks' = SortedByPriority(document.tasks)
          /\ pc' = "task"
          /\ UNCHANGED output
    /\ UNCHANGED <<input_file, github_repo, github_token, document, dry_run, trackerLabels,
                   validation, trackerIssues,
                   calls, ti, parent_issue, child_tasks, ci, child_task_list,
                   created_issues, total_created>>
    /\ ClientReset

\* Lines 380-382 and 391-393: an issue that was created is recorded under its
\* title and counted; created and count are the table and the count before.
RecordCreated(created, title, issue) ==
    IF issue # None
    THEN [t \in DOMAIN created \cup {title} |->
             IF t = title THEN issue ELSE created[t]]
    ELSE created

\* The count is never incremented.
CountCreated_Never(count, issue) == count

\* The count is incremented outside the if: failed creations count too.
CountCreated_Always(count, issue) == count + 1

CountCreated(count, issue) == IF issue # None THEN count + 1 ELSE count

\* The checklist line is appended outside the if.
ChecklistWith_Always(list, issue, title) ==
    Append(list, ChecklistLine(issue.number, title))

\* Line 394: a created child adds its checklist line.
ChecklistWith(list, issue, title) ==
    IF issue # None THEN Append(list, ChecklistLine(issue.number, title))
    ELSE list

\* The checklist replaces the body.
UpdatedBody_Replace(body, list) == <<SubTasksLine>> \o list

\* Line 399: parent_issue["body"] + "\n\n**Sub-tasks:**\n" + "\n".join(list).
UpdatedBody(body, list) == body \o <<BlankLine, SubTasksLine>> \o list

\* The failed update is not caught and ends the run.
AfterUpdate_Raise(ok) == IF ok THEN "task" ELSE "failed"

\* Lines 403-404: a failed update is caught and only warned about; the loop
\* goes on with the next top-level task.
AfterUpdate(ok) == "task"

\* The children of the children are processed with the children.
RECURSIVE WithNested(_)
WithNested(kids) ==
    IF kids = <<>> THEN <<>>
    ELSE <<Head(kids)>> \o Head(kids).children \o WithNested(Tail(kids))

ChildrenOf_Nested(task) == WithNested(task.children)

\* Lines 384-385: task["children"], the direct children only.
ChildrenOf(task) == task.children

\* Lines 378-387: the issue of the next top-level task.
CreateParent ==
    /\ pc = "task"
    /\ ti <= Len(tasks)
    /\ LET task == tasks[ti]
       IN  \E ok \in Outcomes, issue \in IssueResults :
             /\ CreateIssueFromTask(task, None, ok, issue)
             /\ parent_issue' = issue
             /\ created_issues' = RecordCreated(created_issues, task.title, issue)
             /\ total_created' = CountCreated(total_created, issue)
             /\ IF ChildrenOf(task) # <<>>
                THEN /\ child_tasks' = SortedByPriority(ChildrenOf(task))
                     /\ child_task_list' = <<>>
                     /\ ci' = 1
                     /\ pc' = "child"
                     /\ UNCHANGED ti
                ELSE /\ ti' = ti + 1
                     /\ UNCHANGED <<child_tasks, child_task_list, ci, pc>>
    /\ UNCHANGED <<input_file, github_repo, github_token, document, dry_run, trackerLabels,
                   validation, data, github_client, tasks, output>>
    /\ ClientReset

\* Lines 389-394: the issue of the next child of the current task.
CreateChild ==
    /\ pc = "child"
    /\ ci <= Len(child_tasks)
    /\ LET child_task == child_tasks[ci]
       IN  \E ok \in Outcomes, child_issue \in IssueResults :
             /\ CreateIssueFromTask(child_task, parent_issue, ok, child_issue)
             /\ created_issues' =
                  RecordCreated(created_issues, child_task.title, child_issue)
             /\ total_created' = CountCreated(total_created, child_issue)
             /\ child_task_list' =
                  ChecklistWith(child_task_list, child_issue, child_task.title)
             /\ ci' = ci + 1
    /\ UNCHANGED <<input_file, github_repo, github_token, document, dry_run, trackerLabels,
                   validation, pc, data, github_client, tasks, ti, parent_issue,
                   child_tasks, output>>
    /\ ClientReset

\* The loop does not move on to the next task after the update.
UpdateParent_SameTask ==
    /\ pc = "child"
    /\ ci > Len(child_tasks)
    /\ pc' = "task"
    /\ UNCHANGED <<input_file, github_repo, github_token, document, dry_run, trackerLabels,
                   validation, data, github_client, tasks, ti, parent_issue,
                   child_tasks, ci, child_task_list, created_issues,
                   total_created, output, calls, trackerIssues>>
    /\ ClientReset

\* The parent is updated whether or not a child was created.
UpdateParent_NoChildCheck ==
    /\ pc = "child"
    /\ ci > Len(child_tasks)
    /\ IF parent_issue # None /\ ~dry_run /\ github_client
       THEN LET updated_body == UpdatedBody(parent_issue.body, child_task_list)
            IN  \E ok \in Outcomes :
                  /\ calls' = Append(calls, UpdateCall(parent_issue.number,
                                                       updated_body, ok))
                  /\ trackerIssues' =
                       IF ok
                       THEN [trackerIssues EXCEPT
                                ![parent_issue.number].body = updated_body]
                       ELSE trackerIssues
                  /\ pc' = AfterUpdate(ok)
       ELSE /\ pc' = "task"
            /\ UNCHANGED <<calls, trackerIssues>>
    /\ ti' = ti + 1
    /\ UNCHANGED <<input_file, github_repo, github_token, document, dry_run,
                   trackerLabels,
                   validation, data, github_client, tasks, parent_issue,
                   child_tasks, ci, child_task_list, created_issues,
                   total_created, output>>
    /\ ClientReset

\* Lines 396-404: the checklist of the created children goes to the parent.
UpdateParent ==
    /\ pc = "child"
    /\ ci > Len(child_tasks)
    /\ IF parent_issue # None /\ child_task_list # <<>> /\ ~dry_run /\ github_client
       THEN LET updated_body == UpdatedBody(parent_issue.body, child_task_list)
            IN  \E ok \in Outcomes :
                  /\ calls' = Append(calls, UpdateCall(parent_issue.number,
                                                       updated_body, ok))
                  /\ trackerIssues' =
                       IF ok
                       THEN [trackerIssues EXCEPT
                                ![parent_issue.number].body = updated_body]
                       ELSE trackerIssues
                  /\ pc' = AfterUpdate(ok)
       ELSE /\ pc' = "task"
            /\ UNCHANGED <<calls, trackerIssues>>
    /\ ti' = ti + 1
    /\ UNCHANGED <<input_file, github_repo, github_token, document, dry_run, trackerLabels,
                   validation, data, github_client, tasks, parent_issue,
                   child_tasks, ci, child_task_list, created_issues,
                   total_created, output>>
    /\ ClientReset

\* The run fails when an issue is missing at the end.
Finish_FailsOnPartial ==
    /\ pc = "task"
    /\ ti > Len(tasks)
    /\ pc' = IF ~dry_run /\ total_created < Cardinality(AllTasks(data))
             THEN "failed" ELSE "done"
    /\ output' = [kind |-> IF pc' = "done" THEN "Successfully created"
                           ELSE "Failed to create issues",
                  count |-> total_created]
    /\ UNCHANGED <<input_file, github_repo, github_token, document, dry_run, trackerLabels,
                   validation, trackerIssues, calls, data, github_client, tasks,
                   ti, parent_issue, child_tasks, ci, child_task_list,
                   created_issues, total_created>>
    /\ ClientReset

\* Line 406: the run reports the count.
Finish ==
    /\ pc = "task"
    /\ ti > Len(tasks)
    /\ pc' = "done"
    /\ output' = [kind |-> "Successfully created", count |-> total_created]
    /\ UNCHANGED <<input_file, github_repo, github_token, document, dry_run, trackerLabels,
                   validation, trackerIssues,
                   calls, data, github_client, tasks, ti, parent_issue,
                   child_tasks, ci, child_task_list, created_issues,
                   total_created>>
    /\ ClientReset

Next == LoadDocument \/ CreateParent \/ CreateChild \/ UpdateParent \/ Finish

Spec == Init /\ [][Next]_vars

\* The runs on a readable document whose tags are all labels of the tracker.
InitCreate ==
    /\ input_file = "ok"
    /\ github_repo = "test/repo"
    /\ github_token = "token"
    /\ document \in PriorityDocuments
    /\ dry_run \in BOOLEAN
    /\ trackerLabels \in LabelChoices
    /\ pc = "load"
    /\ InitRun

SpecCreate == InitCreate /\ [][Next]_vars

\* The non-dry runs on the documents around the default key.
InitDefaultKey ==
    /\ input_file = "ok"
    /\ github_repo = "test/repo"
    /\ github_token = "token"
    /\ document \in DefaultKeyDocuments
    /\ dry_run = FALSE
    /\ trackerLabels \in LabelChoices
    /\ pc = "load"
    /\ InitRun

SpecDefaultKey == InitDefaultKey /\ [][Next]_vars

\* The runs on the documents without and with a third level.
InitNested ==
    /\ input_file = "ok"
    /\ github_repo = "test/repo"
    /\ github_token = "token"
    /\ document \in NestedDocuments
    /\ dry_run \in BOOLEAN
    /\ trackerLabels \in LabelChoices
    /\ pc = "load"
    /\ InitRun

SpecNested == InitNested /\ [][Next]_vars

(***************************************************************************)
(* main in issue-creation mode (--create-issues).                          *)
(***************************************************************************)
\* An option that was not given (None) or given empty.
NoOption == ""

MissingOptions == "Missing required options for issue creation"

\* The token is asked for only when issues are really created.
Main_TokenForRealRuns ==
    /\ pc = "main"
    /\ IF \/ input_file = NoOption
          \/ github_repo = NoOption
          \/ github_token = NoOption /\ ~dry_run
       THEN /\ pc' = "failed"
            /\ output' = [kind |-> MissingOptions, count |-> 0]
       ELSE /\ pc' = "load"
            /\ UNCHANGED output
    /\ UNCHANGED <<input_file, github_repo, github_token, document, dry_run,
                   trackerLabels, validation, trackerIssues, calls, data,
                   github_client, tasks, ti, parent_issue, child_tasks, ci,
                   child_task_list, created_issues, total_created>>
    /\ ClientReset

\* Lines 112-118: without one of the three options the run ends; otherwise
\* _create_github_issues is called.
Main ==
    /\ pc = "main"
    /\ IF input_file = NoOption \/ github_repo = NoOption \/ github_token = NoOption
       THEN /\ pc' = "failed"
            /\ output' = [kind |-> MissingOptions, count |-> 0]
       ELSE /\ pc' = "load"
            /\ UNCHANGED output
    /\ UNCHANGED <<input_file, github_repo, github_token, document, dry_run,
                   trackerLabels, validation, trackerIssues, calls, data,
                   github_client, tasks, ti, parent_issue, child_tasks, ci,
                   child_task_list, created_issues, total_created>>
    /\ ClientReset

InitMain ==
    /\ input_file \in FileChoices \cup {NoOption}
    /\ github_repo \in {"test/repo", NoOption}
    /\ github_token \in {"token", NoOption}
    /\ document \in (IF input_file = "ok" THEN ShapeDocuments ELSE {NoDocument})
    /\ dry_run \in BOOLEAN
    /\ trackerLabels \in LabelChoices
    /\ pc = "main"
    /\ InitRun

NextMain ==
    \/ Main
    \/ LoadDocument
    \/ CreateParent
    \/ CreateChild
    \/ UpdateParent
    \/ Finish

SpecMain == InitMain /\ [][NextMain]_vars

(***************************************************************************)
(* One request of the client on its own.                                   *)
(***************************************************************************)
InitClient ==
    /\ input_file = "ok"
    /\ github_repo = "test/repo"
    /\ github_token = "token"
    /\ document = NoDocument
    /\ dry_run = FALSE
    /\ trackerLabels \in LabelChoices
    /\ pc = "client"
    /\ trackerIssues = <<>>
    /\ calls = <<>>
    /\ data = NoDocument
    /\ github_client = TRUE
    /\ tasks = <<>>
    /\ ti = 1
    /\ parent_issue = None
    /\ child_tasks = <<>>
    /\ ci = 1
    /\ child_task_list = <<>>
    /\ created_issues = <<>>
    /\ total_created = 0
    /\ output = NoOutput
    /\ validation = NotValidated
    /\ request \in Requests
    /\ attempt = 0
    /\ client_pc = "sending"
    /\ responses = <<>>
    /\ sleeps = <<>>
    /\ error = "none"
    /\ started = 1

NextClient == SendRequest \/ Wake

SpecClient == InitClient /\ [][NextClient]_vars

(***************************************************************************)
(* A whole run with every tracker call carried out by _make_request.       *)
(***************************************************************************)
\* The next step of _create_github_issues calls the tracker.
NeedsCall ==
    /\ ~dry_run
    /\ github_client
    /\ \/ pc = "task" /\ ti <= Len(tasks)
       \/ pc = "child" /\ ci <= Len(child_tasks)
       \/ /\ pc = "child" /\ ci > Len(child_tasks)
          /\ parent_issue # None /\ child_task_list # <<>>

\* The request of that call.
NextRequest ==
    IF pc = "child" /\ ci > Len(child_tasks)
    THEN [method |-> "PATCH", op |-> "update_issue"]
    ELSE [method |-> "POST", op |-> "create_issue"]

\* A new request starts although one is in flight.
StartCall_Unguarded ==
    /\ NeedsCall
    /\ request' = NextRequest
    /\ client_pc' = "sending"
    /\ started' = started + 1
    /\ attempt' = 0
    /\ responses' = <<>>
    /\ sleeps' = <<>>
    /\ error' = "none"
    /\ UNCHANGED <<input_file, github_repo, github_token, document, dry_run, trackerLabels,
                   runVars>>

\* Lines 321 and 344: create_issue or update_issue enters _make_request.
StartCall ==
    /\ client_pc = "idle"
    /\ NeedsCall
    /\ request' = NextRequest
    /\ client_pc' = "sending"
    /\ started' = started + 1
    /\ UNCHANGED <<input_file, github_repo, github_token, document, dry_run, trackerLabels,
                   runVars, attempt, responses, sleeps, error>>

\* The statement after a tracker call runs although the call has not ended.
MayProceed_Always == TRUE

\* Lines 401 and 447: the calls are synchronous: the orchestrator goes on
\* when the call it made has returned or raised.
MayProceed ==
    IF NeedsCall THEN client_pc \in {"returned", "raised"} ELSE client_pc = "idle"

InitFull ==
    /\ input_file = "ok"
    /\ github_repo = "test/repo"
    /\ github_token = "token"
    /\ document \in ShapeDocuments
    /\ dry_run \in BOOLEAN
    /\ trackerLabels \in LabelChoices
    /\ pc = "load"
    /\ InitRun

NextFull ==
    \/ LoadDocument
    \/ StartCall
    \/ SendRequest
    \/ Wake
    \/ MayProceed /\ CreateParent
    \/ MayProceed /\ CreateChild
    \/ MayProceed /\ UpdateParent
    \/ MayProceed /\ Finish

SpecFull == InitFull /\ [][NextFull]_vars

(***************************************************************************)
(* Label validation: _collect_all_tags and _validate_repository_labels,    *)
(* as the specification (4.2 step 3) and the tests describe them.          *)
(***************************************************************************)
Range(seq) == {seq[k] : k \in DOMAIN seq}

\* The tags of the tasks of a list and of their children, added task by task
\* to the tags collected before.
RECURSIVE CollectFrom(_, _)
CollectFrom(task_list, all_tags) ==
    IF task_list = <<>> THEN all_tags
    ELSE LET task == Head(task_list)
         IN  CollectFrom(Tail(task_list),
                         CollectFrom(task.children, all_tags \cup Range(task.tags)))

\* Each task's tags replace the tags collected before.
RECURSIVE CollectFrom_Overwrite(_, _)
CollectFrom_Overwrite(task_list, all_tags) ==
    IF task_list = <<>> THEN all_tags
    ELSE LET task == Head(task_list)
         IN  CollectFrom_Overwrite(Tail(task_list),
                                   CollectFrom_Overwrite(task.children, Range(task.tags)))

CollectAllTags_Overwrite(doc) == CollectFrom_Overwrite(doc.tasks, {})

\* The set of the distinct tags of every task and every child of a document.
CollectAllTags(doc) == CollectFrom(doc.tasks, {})

\* The error of a failed validation: the missing tags sorted and joined, the
\* remediation command and the link to the labels of the repository.
MissingLabelsError(repo, missing) ==
    [status |-> "Missing labels",
     missing |-> SelectSeq(TagNames, LAMBDA t : t \in missing),
     action |-> "gh label create",
     link |-> <<"https://github.com/", repo, "/labels">>]

\* A failed listing is taken for a successful validation.
LabelsFetchError_Swallowed ==
    [status |-> "valid", missing |-> <<>>, action |-> "", link |-> <<>>]

\* The error of a validation whose label listing failed.
LabelsFetchError ==
    [status |-> "Failed to validate repository labels", missing |-> <<>>,
     action |-> "", link |-> <<>>]

LabelsValid == [status |-> "valid", missing |-> <<>>, action |-> "", link |-> <<>>]

ListLabelsCall(ok) ==
    [op |-> "list_labels", title |-> <<0, 0>>, body |-> <<>>, labels |-> <<>>,
     ok |-> ok, number |-> 0]

\* Every required tag is reported when one is missing.
ValidationResult_AllRequired(repo, required_tags, existing_label_names) ==
    LET missing == required_tags \ existing_label_names
    IN  IF missing # {} THEN MissingLabelsError(repo, required_tags) ELSE LabelsValid

\* _validate_repository_labels(client, required_tags) with the label names
\* the tracker lists.
ValidationResult(repo, required_tags, existing_label_names) ==
    LET missing == required_tags \ existing_label_names
    IN  IF missing # {} THEN MissingLabelsError(repo, missing) ELSE LabelsValid

\* One label listing; missing labels or a failed listing fail the run.
ValidateRepositoryLabels ==
    /\ pc = "validate"
    /\ \E ok \in BOOLEAN :
         /\ calls' = Append(calls, ListLabelsCall(ok))
         /\ validation' =
              IF ok
              THEN ValidationResult(github_repo, CollectAllTags(data), trackerLabels)
              ELSE LabelsFetchError
    /\ pc' = IF validation'.status = "valid" THEN "task" ELSE "failed"
    /\ output' = IF validation'.status = "valid" THEN output
                 ELSE [kind |-> validation'.status, count |-> 0]
    /\ UNCHANGED <<input_file, github_repo, github_token, document, dry_run, trackerLabels,
                   trackerIssues, data, github_client, tasks, ti, parent_issue,
                   child_tasks, ci, child_task_list, created_issues,
                   total_created>>
    /\ ClientReset

\* The state in which a loaded document is about to be validated.
InitValidateWith(documents, repos, label_sets) ==
    /\ input_file = "ok"
    /\ github_repo \in repos
    /\ github_token = "token"
    /\ document \in documents
    /\ dry_run = FALSE
    /\ trackerLabels \in label_sets
    /\ pc = "validate"
    /\ trackerIssues = <<>>
    /\ calls = <<>>
    /\ data = document
    /\ github_client = TRUE
    /\ tasks = SortedByPriority(document.tasks)
    /\ ti = 1
    /\ parent_issue = None
    /\ child_tasks = <<>>
    /\ ci = 1
    /\ child_task_list = <<>>
    /\ created_issues = <<>>
    /\ total_created = 0
    /\ output = NoOutput
    /\ validation = NotValidated
    /\ ClientIdle
    /\ started = 0

\* The validation of a loaded document against any set of tracker labels.
InitValidate == InitValidateWith(Documents, RepoChoices, SUBSET Range(TagNames))

\* The validation of the documents of label collection.
InitTags == InitValidateWith(TagDocuments, {"test/repo"}, SUBSET {"bug", "feature"})

NextValidate == ValidateRepositoryLabels

SpecValidate == InitValidate /\ [][NextValidate]_vars

SpecTags == InitTags /\ [][NextValidate]_vars

(***************************************************************************)
(* What the calls of a run say about it.                                   *)
(***************************************************************************)
CreateCalls == {k \in DOMAIN calls : calls[k].op = "create_issue"}
UpdateCalls == {k \in DOMAIN calls : calls[k].op = "update_issue"}
CallsFor(title) == {k \in CreateCalls : calls[k].title = title}
Succeeded == {k \in CreateCalls : calls[k].ok}
Failed == {k \in CreateCalls : ~calls[k].ok}

Titles(doc) == {t.title : t \in AllTasks(doc)}
TaskOf(doc, title) == CHOOSE t \in AllTasks(doc) : t.title = title

\* Two different tasks with the same parent, or two top-level tasks.
Siblings(t1, t2) ==
    /\ t1 # t2
    /\ \/ t1[2] = 0 /\ t2[2] = 0
       \/ t1[2] > 0 /\ t2[2] > 0 /\ t1[1] = t2[1]

\* Document order of two siblings.
Before(t1, t2) == IF t1[2] = 0 THEN t1[1] < t2[1] ELSE t1[2] < t2[2]

Terminated == pc \in {"done", "failed"}

\* Every tag of every task and child of the document is a label of the tracker.
TagsAreLabels ==
    \A t \in AllTasks(document) :
        \A k \in DOMAIN t.tags : t.tags[k] \in trackerLabels

Success == "Successfully created"

\* The checklist lines of a body, in order.
ChecklistOf(body) == SelectSeq(body, IsChecklistLine)

\* The checklist lines of the children of top-level task i that were created,
\* in the order of their creation, each with the number the tracker returned.
ChildLinesOf(i) ==
    LET cs == SelectSeq(calls, LAMBDA c : /\ c.op = "create_issue"
                                           /\ c.ok
                                           /\ c.title[1] = i
                                           /\ c.title[2] > 0)
    IN  [k \in 1..Len(cs) |-> ChecklistLine(cs[k].number, cs[k].title)]

\* The update_issue calls for issue number n.
UpdatesOf(n) == {u \in UpdateCalls : calls[u].number = n}

(***************************************************************************)
(* Claims.                                                                 *)
(***************************************************************************)

\* C1: in a non-dry run of a document with a tag that is no label of the
\* tracker, the run fails and no create_issue call is ever made.
C1_MissingLabelCreatesNothing ==
    (~dry_run /\ input_file = "ok" /\ ~TagsAreLabels) =>
        (CreateCalls = {} /\ pc # "done")

\* C2: when label validation fails for missing labels, the message lists
\* exactly the tags of the document that are no label of the tracker, with the
\* remediation command and the link to the labels of the target repository;
\* and validation fails so whenever the listing succeeded and a tag is missing.
C2_MessageListsMissingTags ==
    LET required(t) == \E task \in AllTasks(document) :
                          \E k \in DOMAIN task.tags : task.tags[k] = t
        missing == {t \in Range(TagNames) : required(t) /\ t \notin trackerLabels}
    IN  /\ validation.status = "Missing labels" =>
              /\ Range(validation.missing) = missing
              /\ missing # {}
              /\ validation.action = "gh label create"
              /\ validation.link = <<"https://github.com/", github_repo, "/labels">>
              /\ pc = "failed"
              /\ output.kind = "Missing labels"
        /\ (calls # <<>> /\ calls[1].ok /\ missing # {}) =>
              validation.status = "Missing labels"

C2_Witness ==
    /\ validation.status = "Missing labels"
    /\ github_repo = "octo/app"
    /\ CollectAllTags(document) \cap trackerLabels # {}
    /\ trackerLabels \ CollectAllTags(document) # {}

\* C3: a dry run makes no tracker call of any kind, validates no label,
\* creates no issue and, for every readable document, ends successfully.
C3_DryRunMakesNoTrackerCall ==
    dry_run =>
        /\ calls = <<>>
        /\ trackerIssues = <<>>
        /\ total_created = 0
        /\ validation = NotValidated
        /\ input_file = "ok" =>
              /\ pc # "failed"
              /\ pc = "done" => output = [kind |-> Success, count |-> 0]
              /\ pc # "done" => ENABLED Next

C3_Witness ==
    /\ dry_run
    /\ pc = "done"
    /\ Cardinality(AllTasks(data)) >= 3
    /\ \E i \in DOMAIN data.tasks : data.tasks[i].children # <<>>

\* C4: a non-dry run whose tags are all labels and in which no create_issue
\* fails makes exactly one create_issue call for every task and child, and
\* reports the number of tasks and children as the created count.
C4_EveryTaskCreatedOnce ==
    (pc = "done" /\ ~dry_run /\ TagsAreLabels /\ Failed = {}) =>
        /\ \A t \in Titles(data) : Cardinality(CallsFor(t)) = 1
        /\ Cardinality(CreateCalls) = Cardinality(AllTasks(data))
        /\ output.count = Cardinality(AllTasks(data))

C4_Witness ==
    /\ pc = "done" /\ ~dry_run /\ TagsAreLabels /\ Failed = {}
    /\ Cardinality(AllTasks(data)) >= 3
    /\ \E i \in DOMAIN data.tasks : data.tasks[i].children # <<>>
    /\ Len(data.tasks) >= 2

\* C5: of two siblings with priorities p1 < p2 the p1 task is created
\* strictly before the p2 task, and of two siblings with equal priorities the
\* one that is first in the document is created first.
C5_SiblingsInPriorityOrder ==
    \A t1, t2 \in Titles(data) :
        LET a == TaskOf(data, t1)
            b == TaskOf(data, t2)
        IN  ( /\ Siblings(t1, t2)
              /\ a.priority # NoPriority
              /\ b.priority # NoPriority
              /\ \/ a.priority < b.priority
                 \/ a.priority = b.priority /\ Before(t1, t2) )
            => \A k2 \in CallsFor(t2) : \E k1 \in CallsFor(t1) : k1 < k2

C5_Witness ==
    /\ pc = "done"
    /\ \E k1, k2 \in CreateCalls :
          /\ k1 < k2
          /\ Siblings(calls[k1].title, calls[k2].title)
          /\ Before(calls[k2].title, calls[k1].title)
          /\ TaskOf(data, calls[k1].title).priority = 1
          /\ TaskOf(data, calls[k2].title).priority = 2
    /\ \E k1, k2 \in CreateCalls :
          /\ k1 < k2
          /\ Siblings(calls[k1].title, calls[k2].title)
          /\ TaskOf(data, calls[k1].title).priority = 1
          /\ TaskOf(data, calls[k2].title).priority = 1

\* C6: a failed create_issue does not abort the run: no task is attempted
\* twice, the run goes on, and at its end every task and child has had
\* exactly one create_issue call.
C6_FailureDoesNotAbort ==
    (~dry_run /\ Failed # {}) =>
        /\ pc # "failed"
        /\ \A t \in Titles(data) : Cardinality(CallsFor(t)) <= 1
        /\ pc = "done" => \A t \in Titles(data) : Cardinality(CallsFor(t)) = 1
        /\ pc # "done" => ENABLED Next

C6_Witness ==
    /\ pc = "done"
    /\ \E k \in Failed :
          /\ calls[k].title[2] = 0
          /\ \E c \in CreateCalls : c > k /\ calls[c].title[2] > 0
          /\ \E c \in CreateCalls : c > k /\ calls[c].title[2] = 0

\* C7: the created count is the number of create_issue calls that returned
\* successfully: failed creations and parent updates are not counted, and
\* the reported count is at most the number of tasks and children.
C7_CountIsSuccessfulCreates ==
    /\ total_created = Cardinality(Succeeded)
    /\ pc = "done" =>
          /\ output.count = Cardinality(Succeeded)
          /\ output.count <= Cardinality(AllTasks(data))

C7_Witness ==
    /\ pc = "done"
    /\ Failed # {}
    /\ \E u \in UpdateCalls : calls[u].ok
    /\ output.count = 2

\* C8: once the document is read and its tags are all labels, the run ends
\* in the successful terminal state whatever the create_issue calls do.
C8_RunSucceedsWhateverCreateDoes ==
    (input_file = "ok" /\ ~dry_run /\ TagsAreLabels /\ pc # "load") =>
        /\ pc # "failed"
        /\ pc = "done" => output.kind = Success
        /\ pc # "done" => ENABLED Next

C8_Witness ==
    /\ pc = "done" /\ ~dry_run /\ TagsAreLabels
    /\ output.kind = Success
    /\ Succeeded = {}
    /\ Cardinality(Failed) >= 3

\* C9 as claimed: at the end of the run the body on the tracker of every
\* created parent holds exactly the checklist lines of its created children.
C9_ParentBodyHasChecklist ==
    pc = "done" =>
        \A k \in Succeeded :
            calls[k].title[2] = 0 =>
                ChecklistOf(trackerIssues[calls[k].number].body)
                    = ChildLinesOf(calls[k].title[1])

\* C9 amended: the body sent in the update_issue call of a created parent
\* holds exactly the checklist lines of its created children, the update is
\* attempted whenever there is such a child, and the body on the tracker holds
\* these lines when the update succeeded and none when it failed.
C9_ParentBodyHasChecklistWhenUpdated ==
    pc = "done" =>
        \A k \in Succeeded :
            calls[k].title[2] = 0 =>
                LET n == calls[k].number
                    lines == ChildLinesOf(calls[k].title[1])
                    onTracker == ChecklistOf(trackerIssues[n].body)
                IN  /\ \A u \in UpdatesOf(n) : ChecklistOf(calls[u].body) = lines
                    /\ lines # <<>> => UpdatesOf(n) # {}
                    /\ (\E u \in UpdatesOf(n) : calls[u].ok) => onTracker = lines
                    /\ (\A u \in UpdatesOf(n) : ~calls[u].ok) => onTracker = <<>>

C9_Witness ==
    /\ pc = "done"
    /\ \E k \in Succeeded :
          /\ calls[k].title[2] = 0
          /\ Len(ChildLinesOf(calls[k].title[1])) = 1
          /\ \E f \in Failed : calls[f].title[1] = calls[k].title[1]
          /\ \E u \in UpdatesOf(calls[k].number) : calls[u].ok
          /\ Len(ChecklistOf(trackerIssues[calls[k].number].body)) = 1

\* C10: a failed update_issue call does not fail the run, leaves the created
\* count and the created issues alone, and the run goes on with the next
\* top-level task up to its successful end.
C10_UpdateFailureIsTolerated ==
    /\ []((\E u \in UpdateCalls : ~calls[u].ok) =>
              /\ pc # "failed"
              /\ pc = "done" =>
                    /\ output = [kind |-> Success, count |-> Cardinality(Succeeded)]
                    /\ \A t \in Titles(data) : CallsFor(t) # {}
              /\ pc # "done" => ENABLED Next)
    /\ [][(/\ Len(calls') = Len(calls) + 1
           /\ calls'[Len(calls')].op = "update_issue"
           /\ ~calls'[Len(calls')].ok)
          => /\ total_created' = total_created
             /\ created_issues' = created_issues
             /\ trackerIssues' = trackerIssues
             /\ pc' = "task"
             /\ ti' = ti + 1]_vars

C10_Witness ==
    /\ pc = "done"
    /\ output.kind = Success
    /\ \E u \in UpdateCalls :
          /\ ~calls[u].ok
          /\ \E c \in CreateCalls : c > u /\ calls[c].title[2] = 0

\* C15 as claimed: once a child has been created or a parent patched, no
\* top-level issue is created any more.
C15_NeverBackToParents ==
    \A k1, k2 \in DOMAIN calls :
        ( /\ k1 < k2
          /\ \/ calls[k1].op = "update_issue"
             \/ calls[k1].op = "create_issue" /\ calls[k1].title[2] > 0 )
        => ~(calls[k2].op = "create_issue" /\ calls[k2].title[2] = 0)

\* The top-level task a call belongs to, as its position in the sorted tasks,
\* and the phase of the call within that task.
TaskIndexOf(call) ==
    IF call.op = "create_issue" THEN call.title[1]
    ELSE trackerIssues[call.number].title[1]
SortedPosition(i) == CHOOSE p \in DOMAIN tasks : tasks[p].title[1] = i
PhaseOf(call) ==
    IF call.op = "update_issue" THEN 3
    ELSE IF call.title[2] > 0 THEN 2 ELSE 1

\* C15 amended: the run goes through the top-level tasks in sorted order and,
\* within each, from creating the parent to creating its children to patching
\* the parent: no call belongs to an earlier task, or to an earlier phase of
\* the same task, than a call before it, and each parent is created and
\* patched at most once.
C15_OneDirectionPerTask ==
    \A k1, k2 \in DOMAIN calls :
        k1 < k2 =>
            LET p1 == SortedPosition(TaskIndexOf(calls[k1]))
                p2 == SortedPosition(TaskIndexOf(calls[k2]))
            IN  \/ p1 < p2
                \/ /\ p1 = p2
                   /\ PhaseOf(calls[k1]) <= PhaseOf(calls[k2])
                   /\ PhaseOf(calls[k1]) = PhaseOf(calls[k2]) => PhaseOf(calls[k1]) = 2

C15_Witness ==
    /\ pc = "done"
    /\ \E k1, k2, k3 \in DOMAIN calls :
          /\ k1 < k2 /\ k2 < k3
          /\ calls[k1].op = "create_issue" /\ calls[k1].title[2] > 0
          /\ calls[k2].op = "update_issue"
          /\ calls[k3].op = "create_issue" /\ calls[k3].title[2] = 0

\* C16: at most one tracker operation is in flight: a request starts only
\* when the client is idle, and while a request is being sent or sleeps in a
\* backoff no step of the orchestrator happens.
C16_OneOperationInFlight ==
    /\ [](/\ started - Len(calls) \in {0, 1}
          /\ client_pc = "idle" <=> started = Len(calls)
          /\ client_pc = "sleeping" => sleeps # <<>>)
    /\ [][started' # started => (client_pc = "idle" /\ started' = started + 1)]_vars
    /\ [][(client_pc \in {"sending", "sleeping"}) => UNCHANGED runVars]_vars

C16_Witness ==
    /\ client_pc = "sleeping"
    /\ Len(sleeps) = 2
    /\ Len(calls) = 2
    /\ started = 3
    /\ request.op = "update_issue"

C18_LabelsFetchedOnceBeforeCreate ==
    LET ListCalls == {k \in DOMAIN calls : calls[k].op = "list_labels"}
    IN  (~dry_run /\ input_file = "ok" /\ pc # "load") =>
            /\ Cardinality(ListCalls) <= 1
            /\ \A c \in CreateCalls : \E k \in ListCalls : k < c
            /\ Terminated => Cardinality(ListCalls) = 1

\* C19: when the listing of the labels fails, validation fails with the
\* message 'Failed to validate repository labels', the run ends failed, and no
\* issue is or can be created.
C19_FetchFailureFailsValidation ==
    (calls # <<>> /\ calls[1].op = "list_labels" /\ ~calls[1].ok) =>
        /\ validation.status = "Failed to validate repository labels"
        /\ pc = "failed"
        /\ output.kind = "Failed to validate repository labels"
        /\ CreateCalls = {}
        /\ trackerIssues = <<>>
        /\ total_created = 0
        /\ ~ENABLED Next
        /\ ~ENABLED NextValidate

C19_Witness ==
    /\ calls = <<ListLabelsCall(FALSE)>>
    /\ validation = LabelsFetchError
    /\ pc = "failed"
    /\ AllTasks(document) # {}
    /\ TagsAreLabels

\* The documents with the tasks of doc in another order and the children of
\* each task in another order.
Reorder(seq, p) == [k \in DOMAIN seq |-> seq[p[k]]]
ChildReorderings(task) ==
    {[task EXCEPT !.children = Reorder(task.children, p)] :
        p \in Permutations(DOMAIN task.children)}
Reorderings(doc) ==
    LET n == Len(doc.tasks)
    IN  {[doc EXCEPT !.tasks = ts] :
            ts \in UNION {{t \in [1..n -> UNION {ChildReorderings(doc.tasks[k]) : k \in 1..n}] :
                              \A k \in 1..n : t[k] \in ChildReorderings(doc.tasks[p[k]])} :
                          p \in Permutations(1..n)}}

\* The document without the children that have no tag and without the
\* childless tasks that have no tag.
Tagged(seq) == SelectSeq(seq, LAMBDA t : t.tags # <<>> \/ t.children # <<>>)
WithoutUntagged(doc) ==
    [doc EXCEPT !.tasks =
        Tagged([k \in DOMAIN doc.tasks |->
                   [doc.tasks[k] EXCEPT !.children = Tagged(doc.tasks[k].children)]])]

\* C20: the tags collected from a document are exactly the tags that occur
\* on a task or a child, each once; the result is the same for every order of
\* the tasks and of the children; tasks without tags contribute nothing.
C20_CollectTagsIsOrderFree ==
    LET collected == CollectAllTags(document)
    IN  /\ collected = {t \in Range(TagNames) :
                           \E task \in AllTasks(document) :
                               \E k \in DOMAIN task.tags : task.tags[k] = t}
        /\ \A d \in Reorderings(document) : CollectAllTags(d) = collected
        /\ CollectAllTags(WithoutUntagged(document)) = collected
        /\ (\A task \in AllTasks(document) : task.tags = <<>>) => collected = {}
        /\ (calls # <<>> /\ calls[1].ok) =>
              (validation.status = "valid" <=> collected \subseteq trackerLabels)

C20_Witness ==
    /\ calls # <<>>
    /\ calls[1].ok
    /\ Len(document.tasks) = 2
    /\ document.tasks[1].tags = <<"bug">>
    /\ document.tasks[2].tags = <<"feature", "bug">>
    /\ Len(document.tasks[2].children) = 1
    /\ document.tasks[2].children[1].tags = <<>>
    /\ CollectAllTags(document) = {"bug", "feature"}
    /\ Cardinality(Reorderings(document)) = 2

\* The back-references of a body, in order.
ParentLinesOf(body) == SelectSeq(body, IsParentLine)

\* C21: the create_issue call of a child comes after the one create_issue
\* call of its own parent, and when that call returned an issue the child's
\* body has exactly one back-reference, to the number the tracker returned
\* for that parent.
C21_ChildRefersToOwnParent ==
    \A k \in CreateCalls :
        calls[k].title[2] > 0 =>
            LET parents == CallsFor(<<calls[k].title[1], 0>>)
            IN  /\ Cardinality(parents) = 1
                /\ \A p \in parents :
                      /\ p < k
                      /\ calls[p].ok =>
                            /\ ParentLinesOf(calls[k].body) =
                                  <<ParentLine(calls[p].number)>>
                            /\ trackerIssues[calls[p].number].title =
                                  <<calls[k].title[1], 0>>

C21_Witness ==
    /\ pc = "done"
    /\ \E k \in CreateCalls :
          /\ calls[k].title[2] > 0
          /\ ParentLinesOf(calls[k].body) = <<ParentLine(2)>>
          /\ trackerIssues[1].title[2] = 0
          /\ trackerIssues[2].title = <<calls[k].title[1], 0>>

\* C22 as claimed: the body of a top-level task is the category line, a blank
\* line and the description lines, and nothing else.
C22_TopLevelBodyHasNoPriority ==
    \A k \in CreateCalls :
        calls[k].title[2] = 0 =>
            LET task == TaskOf(data, calls[k].title)
            IN  calls[k].body =
                   <<CategoryLine(task.category), BlankLine>> \o task.description

\* C22 amended: the body of a top-level task is the category line, a blank
\* line and the description lines, followed by a blank line and the priority
\* line when the task has a priority, and never a back-reference; a child's
\* body is built the same way and ends with a blank line and the
\* back-reference when its parent was created.
C22_TopLevelBodyHasNoBackReference ==
    \A k \in CreateCalls :
        LET task == TaskOf(data, calls[k].title)
            base == <<CategoryLine(task.category), BlankLine>> \o task.description
            withPriority ==
                IF task.priority = NoPriority THEN base
                ELSE base \o <<BlankLine, PriorityLine(task.priority)>>
        IN  IF calls[k].title[2] = 0
            THEN calls[k].body = withPriority
            ELSE \/ calls[k].body = withPriority
                 \/ \E n \in DOMAIN trackerIssues :
                       calls[k].body = withPriority \o <<BlankLine, ParentLine(n)>>

C22_Witness ==
    /\ pc = "done"
    /\ \E k1, k2, k3 \in CreateCalls :
          /\ calls[k1].title[2] = 0
          /\ calls[k2].title[2] = 0
          /\ calls[k3].title[2] > 0
          /\ \E n \in DOMAIN calls[k1].body : IsPriorityLine(calls[k1].body[n])
          /\ \A n \in DOMAIN calls[k2].body : ~IsPriorityLine(calls[k2].body[n])
          /\ ParentLinesOf(calls[k3].body) # <<>>

\* C23: in issue-creation mode, when the input path, the repository or the
\* token is absent, the run fails with the missing-options error: the
\* document is not read, no client is constructed and no tracker call is
\* made, with and without the dry-run flag.
C23_MissingOptionFailsFirst ==
    (input_file = NoOption \/ github_repo = NoOption \/ github_token = NoOption) =>
        /\ pc \in {"main", "failed"}
        /\ data = NoDocument
        /\ tasks = <<>>
        /\ ~github_client
        /\ calls = <<>>
        /\ trackerIssues = <<>>
        /\ started = 0
        /\ pc = "main" => ENABLED NextMain
        /\ pc = "failed" => (output.kind = MissingOptions /\ ~ENABLED NextMain)

C23_Witness ==
    /\ pc = "failed"
    /\ output.kind = MissingOptions
    /\ github_token = NoOption
    /\ github_repo # NoOption
    /\ input_file = "ok"
    /\ document.tasks # <<>>
    /\ dry_run

\* The create_issue calls for the children of top-level task i.
ChildCallsOf(i) == {k \in CreateCalls : calls[k].title[1] = i /\ calls[k].title[2] > 0}

\* The children of top-level task i in the document.
ChildTitlesOf(i) == {t \in Titles(data) : t[1] = i /\ t[2] > 0}

\* C24: every update_issue call is for a parent issue that was created, is
\* the only update of that issue, follows a successful create_issue of one of
\* that task's children and the create_issue attempts of all of its children;
\* a dry run makes no update.
C24_UpdateOncePerParentWithChild ==
    /\ dry_run => UpdateCalls = {}
    /\ \A u \in UpdateCalls :
          /\ UpdatesOf(calls[u].number) = {u}
          /\ \E p \in Succeeded :
                /\ p < u
                /\ calls[p].number = calls[u].number
                /\ calls[p].title[2] = 0
                /\ LET i == calls[p].title[1]
                   IN  /\ \E k \in ChildCallsOf(i) : calls[k].ok
                       /\ \A k \in ChildCallsOf(i) : p < k /\ k < u
                       /\ \A t \in ChildTitlesOf(i) : Cardinality(CallsFor(t)) = 1

C24_Witness ==
    /\ pc = "done"
    /\ Cardinality(UpdateCalls) = 1
    /\ \E p \in Succeeded, k1 \in Failed, k2 \in Succeeded, u \in UpdateCalls :
          /\ calls[p].title[2] = 0
          /\ ChildCallsOf(calls[p].title[1]) = {k1, k2}
          /\ k1 < k2
          /\ k2 < u
          /\ calls[u].number = calls[p].number

\* The create_issue call that returned issue number n.
CreatedBy(n) == CHOOSE k \in Succeeded : calls[k].number = n

\* C25: the parent update carries the body only: the body it sends is the
\* body of the created parent followed by a blank line, the sub-tasks heading
\* and the checklist; on the tracker every issue keeps the number, title and
\* labels it was created with, and a step that updates one issue changes the
\* body of that issue and nothing else.
C25_UpdateChangesBodyOnly ==
    /\ [](/\ \A u \in UpdateCalls :
                LET created == calls[CreatedBy(calls[u].number)]
                    checklist == ChecklistOf(calls[u].body)
                IN  /\ calls[u].body =
                          created.body \o <<BlankLine, SubTasksLine>> \o checklist
                    /\ checklist # <<>>
                    /\ ChecklistOf(created.body) = <<>>
          /\ \A n \in DOMAIN trackerIssues :
                LET created == calls[CreatedBy(n)]
                IN  /\ trackerIssues[n].number = n
                    /\ trackerIssues[n].title = created.title
                    /\ trackerIssues[n].labels = created.labels
                    /\ \/ trackerIssues[n].body = created.body
                       \/ \E u \in UpdatesOf(n) :
                             calls[u].ok /\ trackerIssues[n].body = calls[u].body)
    /\ [][(Len(calls') = Len(calls) + 1 /\ calls'[Len(calls')].op = "update_issue")
          => LET n == calls'[Len(calls')].number
             IN  /\ DOMAIN trackerIssues' = DOMAIN trackerIssues
                 /\ \A k \in DOMAIN trackerIssues :
                       k # n => trackerIssues'[k] = trackerIssues[k]
                 /\ trackerIssues'[n] =
                       [trackerIssues[n] EXCEPT !.body = trackerIssues'[n].body]
                 /\ created_issues' = created_issues]_vars

C25_Witness ==
    /\ pc = "done"
    /\ Len(trackerIssues) = 3
    /\ \E u \in UpdateCalls :
          /\ calls[u].ok
          /\ calls[u].number = 2
          /\ trackerIssues[2].body = calls[u].body
          /\ trackerIssues[2].labels # <<>>
          /\ Len(ChecklistOf(calls[u].body)) = 1

\* C26: the issues on the tracker only grow in number: a step of the run
\* removes no issue and changes no number or title, and in every state, so
\* wherever the run fails or is interrupted, every issue a create_issue call
\* returned is on the tracker.
C26_CreatedIssuesRemain ==
    /\ [](/\ Cardinality(Succeeded) = Len(trackerIssues)
          /\ \A k \in Succeeded :
                /\ calls[k].number \in DOMAIN trackerIssues
                /\ trackerIssues[calls[k].number].title = calls[k].title)
    /\ [][/\ Len(trackerIssues') >= Len(trackerIssues)
          /\ \A n \in DOMAIN trackerIssues :
                /\ trackerIssues'[n].number = trackerIssues[n].number
                /\ trackerIssues'[n].title = trackerIssues[n].title]_vars

C26_Witness ==
    /\ pc = "done"
    /\ Len(trackerIssues) = 2
    /\ Cardinality(Failed) = 1
    /\ \E k \in Failed : \A s \in Succeeded : s < k

\* C27: when the create_issue call of a top-level task failed, each of its
\* children is still attempted once, the bodies of these children have no
\* back-reference, the children that are created are counted, and no
\* update_issue call is made before the next top-level task.
C27_ChildrenOfFailedParent ==
    \A p \in Failed :
        calls[p].title[2] = 0 =>
            LET i == calls[p].title[1]
            IN  /\ \A k \in ChildCallsOf(i) :
                      /\ p < k
                      /\ ParentLinesOf(calls[k].body) = <<>>
                /\ \A t \in ChildTitlesOf(i) : Cardinality(CallsFor(t)) <= 1
                /\ \A u \in UpdateCalls :
                      u > p => \E q \in CreateCalls :
                                  p < q /\ q < u /\ calls[q].title[2] = 0
                /\ total_created = Cardinality(Succeeded)
                /\ (pc = "done" \/ (pc = "task" /\ tasks[ti - 1].title[1] # i)) =>
                      \A t \in ChildTitlesOf(i) : Cardinality(CallsFor(t)) = 1

C27_Witness ==
    /\ pc = "done"
    /\ output.count = 2
    /\ \E p \in Failed :
          /\ calls[p].title[2] = 0
          /\ Cardinality(ChildCallsOf(calls[p].title[1])) = 2
          /\ \A k \in ChildCallsOf(calls[p].title[1]) : calls[k].ok
    /\ UpdateCalls = {}

\* C31: a task without priority is ordered as if its priority were 999:
\* of two siblings of which one has no priority, the one with the smaller
\* key (its priority, or 999 without one) is created first, and with equal
\* keys, so among siblings without priority, the one that is first in the
\* document.
C31_NoPriorityOrdersAs999 ==
    \A t1, t2 \in Titles(data) :
        LET a == TaskOf(data, t1)
            b == TaskOf(data, t2)
            ka == IF a.priority = NoPriority THEN 999 ELSE a.priority
            kb == IF b.priority = NoPriority THEN 999 ELSE b.priority
        IN  ( /\ Siblings(t1, t2)
              /\ a.priority = NoPriority \/ b.priority = NoPriority
              /\ ka < kb \/ (ka = kb /\ Before(t1, t2)) )
            => /\ \A k2 \in CallsFor(t2) : \E k1 \in CallsFor(t1) : k1 < k2
               /\ pc = "done" => (CallsFor(t1) # {} /\ CallsFor(t2) # {})

C31_Witness ==
    /\ pc = "done"
    /\ Len(data.tasks) = 3
    /\ data.tasks[1].priority = NoPriority
    /\ data.tasks[2].priority = NoPriority
    /\ data.tasks[3].priority = 1
    /\ Len(calls) = 3
    /\ calls[1].title = <<3, 0>>
    /\ calls[2].title = <<1, 0>>
    /\ calls[3].title = <<2, 0>>

\* The checklist lines name direct children only.
NamesChildren(lines) ==
    \A n \in DOMAIN lines :
        IsChecklistLine(lines[n]) =>
            (lines[n][4] \in Titles(data) /\ lines[n][4][2] > 0)

\* C32: only the top-level tasks and their direct children are processed:
\* the outer loop runs over top-level tasks and the inner loop over direct
\* children, so that a task nested under a child gets no create_issue call,
\* no preview and no checklist line, and a run makes at most as many
\* create_issue calls as there are top-level tasks and direct children.
C32_OnlyTwoLevels ==
    /\ \A k \in DOMAIN tasks :
          tasks[k] \in Range(data.tasks) /\ tasks[k].title[2] = 0
    /\ \A k \in DOMAIN child_tasks :
          /\ child_tasks[k] \in AllTasks(data)
          /\ Len(child_tasks[k].title) = 2
          /\ child_tasks[k].title[2] > 0
    /\ \A k \in CreateCalls :
          calls[k].title \in Titles(data) /\ NamesChildren(calls[k].body)
    /\ \A u \in UpdateCalls : NamesChildren(calls[u].body)
    /\ NamesChildren(child_task_list)
    /\ \A n \in DOMAIN trackerIssues :
          trackerIssues[n].title \in Titles(data) /\ NamesChildren(trackerIssues[n].body)
    /\ Cardinality(CreateCalls) <= Cardinality(AllTasks(data))
    /\ total_created <= Cardinality(AllTasks(data))

C32_Witness ==
    /\ pc = "done"
    /\ ~dry_run
    /\ Len(data.tasks) = 1
    /\ Len(data.tasks[1].children) = 2
    /\ \A j \in 1..2 : data.tasks[1].children[j].children # <<>>
    /\ Cardinality(CreateCalls) = 3
    /\ total_created = 3
    /\ \E u \in UpdateCalls : calls[u].ok /\ Len(ChecklistOf(calls[u].body)) = 2

(***************************************************************************)
(* Claims about one request of the client.                                 *)
(***************************************************************************)
\* Attempt number a (from 0) got the response responses[a + 1].
RateLimited(i) ==
    /\ responses[i].kind = "response"
    /\ responses[i].status = 429
    /\ responses[i].retry_after.present => responses[i].retry_after.integer

ConnectionFailed(i) == responses[i].kind \in {"Timeout", "ConnectionError"}

Successful(i) ==
    responses[i].kind = "response" /\ responses[i].status \in {200, 201}

ClientFinished == client_pc \in {"returned", "raised"}

\* C11: after rate-limit signals on its first k attempts, k <= max_retries,
\* the operation is still going on, and a success response on attempt k + 1
\* makes it return with no further network attempt.
C11_SuccessAfterRateLimits ==
    LET n == Len(responses)
    IN  /\ (n >= 1 /\ n <= max_retries /\ \A i \in 1..n : RateLimited(i)) =>
              (client_pc \in {"sleeping", "sending"} /\ error = "none")
        /\ (n >= 2 /\ Successful(n) /\ \A i \in 1..(n - 1) : RateLimited(i)) =>
              /\ client_pc = "returned"
              /\ error = "none"
              /\ ~ENABLED NextClient

C11_Witness ==
    /\ Len(responses) = max_retries + 1
    /\ \A i \in 1..max_retries : RateLimited(i)
    /\ Successful(max_retries + 1)
    /\ client_pc = "returned"
    /\ Len(sleeps) = max_retries

\* C12: an HTTP error status other than 429 ends the operation on the attempt
\* that received it: it is the last response, the operation has raised, and
\* no sleep follows.
C12_HttpErrorIsNotRetried ==
    \A i \in DOMAIN responses :
        ( /\ responses[i].kind = "response"
          /\ IsHttpError(responses[i].status)
          /\ responses[i].status # 429 )
        => /\ i = Len(responses)
           /\ client_pc = "raised"
           /\ \A k \in DOMAIN sleeps : sleeps[k].attempt # i - 1

\* C13: an operation makes at most max_retries + 1 network attempts and ends
\* with the last one; when every attempt was rate-limited or failed at the
\* connection, it ends with an exception raised to the caller.
C13_AtMostMaxRetriesPlusOneAttempts ==
    /\ Len(responses) <= max_retries + 1
    /\ attempt <= max_retries
    /\ Len(responses) = max_retries + 1 => (ClientFinished /\ ~ENABLED NextClient)
    /\ ( /\ Len(responses) = max_retries + 1
         /\ \A i \in DOMAIN responses : RateLimited(i) \/ ConnectionFailed(i) )
       => (client_pc = "raised" /\ error # "none")
    /\ ClientFinished \/ ENABLED NextClient

C13_Witness ==
    /\ Len(responses) = max_retries + 1
    /\ \A i \in DOMAIN responses : RateLimited(i) \/ ConnectionFailed(i)
    /\ \E i \in DOMAIN responses : RateLimited(i)
    /\ \E i \in DOMAIN responses : ConnectionFailed(i)
    /\ client_pc = "raised"

\* With the defaults the exponential backoff of attempts 0, 1 and 2.
DefaultBackoff == <<1, 2, 4>>

\* C14: an attempt that has a retry left and was rate-limited or failed at
\* the connection sleeps once before the retry: for the Retry-After of the
\* server when the response has one, else for base_delay * 2^attempt, which is
\* 1, 2 and 4 for attempts 0, 1 and 2.
C14_BackoffDurations ==
    \A a \in 0..(Len(responses) - 1) :
        LET r == responses[a + 1]
            mine == {k \in DOMAIN sleeps : sleeps[k].attempt = a}
        IN  (a < max_retries /\ (RateLimited(a + 1) \/ ConnectionFailed(a + 1))) =>
                /\ Cardinality(mine) = 1
                /\ \A k \in mine :
                      sleeps[k].seconds =
                          IF r.kind = "response" /\ r.retry_after.present
                          THEN r.retry_after.seconds
                          ELSE DefaultBackoff[a + 1]

C14_Witness ==
    /\ Len(sleeps) = 3
    /\ sleeps[1].seconds = 7 /\ RateLimited(1)
    /\ sleeps[2].seconds = 2 /\ RateLimited(2)
    /\ sleeps[3].seconds = 4 /\ ConnectionFailed(3)

\* A response whose status is neither 200 or 201 nor an HTTP error status.
OtherStatus(i) ==
    /\ responses[i].kind = "response"
    /\ responses[i].status \notin {200, 201}
    /\ ~IsHttpError(responses[i].status)

\* C28: an attempt whose response has a status that is neither 200 or 201
\* nor an HTTP error status sleeps not at all: when a retry is left the next
\* attempt is made at once, on the last attempt the operation raises the
\* generic 'failed after retries' exception; the response is never returned.
C28_OtherStatusRetriesAtOnce ==
    \A i \in DOMAIN responses :
        OtherStatus(i) =>
            /\ \A k \in DOMAIN sleeps : sleeps[k].attempt # i - 1
            /\ i = Len(responses) => client_pc # "returned"
            /\ (i <= max_retries /\ i = Len(responses)) =>
                  (client_pc = "sending" /\ attempt = i /\ error = "none")
            /\ i = max_retries + 1 =>
                  (client_pc = "raised" /\ error = GenericError /\ ~ENABLED NextClient)

C28_Witness ==
    /\ Len(responses) = max_retries + 1
    /\ \A i \in DOMAIN responses : OtherStatus(i)
    /\ responses[1].status = 204
    /\ responses[2].status = 304
    /\ sleeps = <<>>
    /\ client_pc = "raised"
    /\ error = GenericError

\* C29: an operation sleeps at most max_retries times and never on its last
\* attempt: a rate-limit response on attempt max_retries makes it raise the
\* HTTP error of that response at once.
C29_NoSleepAfterLastAttempt ==
    /\ Len(sleeps) <= max_retries
    /\ \A k \in DOMAIN sleeps : sleeps[k].attempt < max_retries
    /\ Len(responses) = max_retries + 1 => client_pc # "sleeping"
    /\ (Len(responses) = max_retries + 1 /\ RateLimited(max_retries + 1)) =>
          /\ client_pc = "raised"
          /\ error = "HTTPError"
          /\ ~ENABLED NextClient

C29_Witness ==
    /\ Len(responses) = max_retries + 1
    /\ \A i \in DOMAIN responses : RateLimited(i)
    /\ responses[max_retries + 1].retry_after.present
    /\ Len(sleeps) = max_retries
    /\ client_pc = "raised"
    /\ error = "HTTPError"

\* A rate-limit response whose Retry-After is present and no integer.
BadRetryAfter(i) ==
    /\ responses[i].kind = "response"
    /\ responses[i].status = 429
    /\ responses[i].retry_after.present
    /\ ~responses[i].retry_after.integer

\* C30: a rate-limit response whose Retry-After is no integer ends the
\* operation on that attempt with a ValueError, with no sleep and no further
\* attempt; the orchestrator's next step records the call as failed, creates
\* and counts nothing for it, and goes on with the run.
C30_BadRetryAfterFailsTheCall ==
    /\ [](\A i \in DOMAIN responses :
             BadRetryAfter(i) =>
                 /\ i = Len(responses)
                 /\ client_pc = "raised"
                 /\ error = "ValueError"
                 /\ \A k \in DOMAIN sleeps : sleeps[k].attempt # i - 1
                 /\ ~ENABLED SendRequest
                 /\ ~ENABLED Wake
                 /\ ENABLED NextFull)
    /\ [][(error = "ValueError")
          => /\ Len(calls') = Len(calls) + 1
             /\ ~calls'[Len(calls')].ok
             /\ calls'[Len(calls')].op = request.op
             /\ trackerIssues' = trackerIssues
             /\ total_created' = total_created
             /\ created_issues' = created_issues
             /\ pc' \in {"task", "child"}
             /\ client_pc' = "idle"]_vars

C30_Witness ==
    /\ client_pc = "raised"
    /\ error = "ValueError"
    /\ Len(responses) = 2
    /\ BadRetryAfter(2)
    /\ Len(sleeps) = 1
    /\ request.op = "create_issue"
    /\ Len(trackerIssues) = 1
    /\ pc = "child"

====
